---- MODULE Spec2Model ----
(***************************************************************************)
(* Per-frame mouse input synchronisation of rusty_engine                   *)
(* (src/src/mouse.rs).  Two systems, sync_mouse_state and                  *)
(* sync_mouse_events, are scheduled before the "game_logic_sync" label.    *)
(* Each frame the host (Bevy) delivers the raw events and maintains        *)
(* Input<MouseButton>; the two systems copy them into MouseState and into  *)
(* the four event vectors of EngineState; game logic then reads both.      *)
(*                                                                         *)
(* f32 values are modelled by integers; window dimensions are even so that *)
(* "* 0.5" is exact.  Vec2 is a pair <<x, y>>.  Option<Vec2> is <<>> for   *)
(* None and <<v>> for Some(v).                                             *)
(***************************************************************************)
EXTENDS Integers, Sequences, FiniteSets, TLC

\* Total number of raw events the host delivers over a run.
MaxEvents == 3
\* Number of times game logic reads the event vectors in one frame.
MaxReads == 2
\* Largest coordinate, and half of the largest window size, of the conversion grid.
MaxCoord == 3
\* Number of times game logic drains an event vector in one frame.
MaxDrains == 2
\* Number of times game logic queries MouseState in one frame.
MaxQueries == 2
\* Longest button list passed to the "any" queries.
MaxList == 2

----------------------------------------------------------------------------
\* Raw host data (re-exported Bevy types, mouse.rs lines 5-11)

MouseButton == {"Left", "Right"}
ElementState == {"Pressed", "Released"}
MouseButtonInput == [button : MouseButton, state : ElementState]
CursorMoved == [position : {<<800, 300>>, <<0, 0>>}]
MouseMotion == [delta : {<<1, 2>>, <<-1, -2>>}]
MouseWheel == {[x |-> 0, y |-> -3], [x |-> 0, y |-> -1], [x |-> 1, y |-> 3]}
WindowDimensions == {<<800, 600>>, <<400, 200>>}

SeqsUpTo(S, n) == UNION {[1..k -> S] : k \in 0..n}

----------------------------------------------------------------------------
\* Vec2 arithmetic

ZERO == <<0, 0>>
VAdd(a, b) == <<a[1] + b[1], a[2] + b[2]>>
VSub(a, b) == <<a[1] - b[1], a[2] - b[2]>>
\* v * 0.5
VHalf(v) == <<v[1] \div 2, v[2] \div 2>>

None == <<>>
Some(v) == <<v>>

----------------------------------------------------------------------------
VARIABLES
    host_events,        \* Events<T> of the frame: one sequence per event type
    mouse_button_input, \* Input<MouseButton>: pressed, just_pressed, just_released
    readers,            \* EventReader cursor of every system parameter
    engine_state,       \* EngineState: the four event vectors, window_dimensions
    mouse_state,        \* MouseState resource
    runs,               \* how often each sync system ran this frame
    stage,              \* "idle", "sync" or "game_logic"
    delivered,          \* raw events delivered so far in the run
    cursor_seen,        \* a CursorMoved event was delivered in some frame
    reads,              \* reads of the event vectors by game logic this frame
                        \* since game logic last changed them
    read_log,           \* what the latest of these reads returned
    drains,             \* drains of an event vector by game logic this frame
    drained,            \* the vectors game logic drained this frame
    last_drain,         \* the latest drain: vector, entries taken, repeated or not
    queries,            \* rounds of MouseState queries by game logic this frame
    answers             \* what the latest round of queries returned

\* What game logic did with the vectors and with MouseState in this frame.
logic_vars == <<drains, drained, last_drain, queries, answers>>

vars == <<host_events, mouse_button_input, readers, engine_state, mouse_state,
          runs, stage, delivered, cursor_seen, reads, read_log, logic_vars>>

Systems == {"sync_mouse_state", "sync_mouse_events"}

\* Variant: only sync_mouse_state is ordered before the label.
BeforeGameLogicSync_state_only == {"sync_mouse_state"}

\* Variant: no system is ordered before the label.
BeforeGameLogicSync_none == {}

\* The systems MousePlugin::build orders before the "game_logic_sync" label.
BeforeGameLogicSync == {"sync_mouse_state", "sync_mouse_events"}

EventTypes == {"MouseButtonInput", "CursorMoved", "MouseMotion", "MouseWheel"}

\* One EventReader per system parameter: <<system, event type>>.
Readers ==
    ({"sync_mouse_events"} \X EventTypes)
        \cup ({"sync_mouse_state"} \X {"MouseMotion", "CursorMoved", "MouseWheel"})

Log(es) ==
    [mouse_button_events |-> es.mouse_button_events,
     mouse_location_events |-> es.mouse_location_events,
     mouse_motion_events |-> es.mouse_motion_events,
     mouse_wheel_events |-> es.mouse_wheel_events]

\* Value of read_log while game logic has not read the vectors this frame.
NoRead == <<>>
\* Value of last_drain while game logic has not drained a vector this frame.
NoDrain == <<>>
\* Value of answers while game logic has not queried MouseState this frame.
NoQuery == <<>>

----------------------------------------------------------------------------
\* MouseState::default() and MouseWheelState::default()

MouseWheelStateDefault == [x |-> 0, y |-> 0]

\* Variant: the location starts at the origin instead of None.
MouseStateDefault_origin ==
    [location |-> Some(ZERO),
     motion |-> ZERO,
     wheel |-> MouseWheelStateDefault,
     pressed |-> {},
     just_pressed |-> {},
     just_released |-> {}]

MouseStateDefault ==
    [location |-> None,
     motion |-> ZERO,
     wheel |-> MouseWheelStateDefault,
     pressed |-> {},
     just_pressed |-> {},
     just_released |-> {}]

Init ==
    /\ host_events = [t \in EventTypes |-> <<>>]
    /\ mouse_button_input = [pressed |-> {}, just_pressed |-> {}, just_released |-> {}]
    /\ readers = [r \in Readers |-> 0]
    /\ engine_state = [mouse_button_events |-> <<>>,
                       mouse_location_events |-> <<>>,
                       mouse_motion_events |-> <<>>,
                       mouse_wheel_events |-> <<>>,
                       window_dimensions |-> ZERO]
    /\ mouse_state = MouseStateDefault
    /\ runs = [s \in Systems |-> 0]
    /\ stage = "idle"
    /\ delivered = 0
    /\ cursor_seen = FALSE
    /\ reads = 0
    /\ read_log = NoRead
    /\ drains = 0
    /\ drained = {}
    /\ last_drain = NoDrain
    /\ queries = 0
    /\ answers = NoQuery

----------------------------------------------------------------------------
\* Host: Bevy's Input<MouseButton>, updated once per frame from the frame's
\* button events before the sync systems run (clear the two edge sets, then
\* press / release per event in arrival order).

InputPress(inp, b) ==
    [pressed |-> inp.pressed \cup {b},
     just_pressed |-> IF b \in inp.pressed THEN inp.just_pressed
                      ELSE inp.just_pressed \cup {b},
     just_released |-> inp.just_released]

InputRelease(inp, b) ==
    [pressed |-> inp.pressed \ {b},
     just_pressed |-> inp.just_pressed,
     just_released |-> inp.just_released \cup {b}]

RECURSIVE InputApply(_, _)
InputApply(inp, evs) ==
    IF evs = <<>> THEN inp
    ELSE InputApply(IF Head(evs).state = "Pressed"
                    THEN InputPress(inp, Head(evs).button)
                    ELSE InputRelease(inp, Head(evs).button),
                    Tail(evs))

InputUpdate(inp, evs) ==
    InputApply([pressed |-> inp.pressed, just_pressed |-> {}, just_released |-> {}], evs)

\* A frame begins: the host delivers the frame's raw events and the window size.
HostFrame ==
    /\ \/ stage = "idle"
       \/ stage = "game_logic" /\ \A s \in Systems : runs[s] = 1
    /\ \E b \in SeqsUpTo(MouseButtonInput, MaxEvents - delivered) :
       \E c \in SeqsUpTo(CursorMoved, MaxEvents - delivered - Len(b)) :
       \E m \in SeqsUpTo(MouseMotion, MaxEvents - delivered - Len(b) - Len(c)) :
       \E w \in SeqsUpTo(MouseWheel, MaxEvents - delivered - Len(b) - Len(c) - Len(m)) :
       \E d \in WindowDimensions :
          /\ host_events' = [MouseButtonInput |-> b, CursorMoved |-> c,
                             MouseMotion |-> m, MouseWheel |-> w]
          /\ mouse_button_input' = InputUpdate(mouse_button_input, b)
          /\ engine_state' = [engine_state EXCEPT !.window_dimensions = d]
          /\ delivered' = delivered + Len(b) + Len(c) + Len(m) + Len(w)
          /\ cursor_seen' = (cursor_seen \/ c # <<>>)
    /\ readers' = [r \in Readers |-> 0]
    /\ runs' = [s \in Systems |-> 0]
    /\ stage' = "sync"
    /\ reads' = 0
    /\ read_log' = NoRead
    /\ drains' = 0
    /\ drained' = {}
    /\ last_drain' = NoDrain
    /\ queries' = 0
    /\ answers' = NoQuery
    /\ UNCHANGED mouse_state

----------------------------------------------------------------------------
\* Variant: both systems read through the readers of sync_mouse_events.
ReaderIter_shared(sys, type) ==
    SubSeq(host_events[type], readers[<<"sync_mouse_events", type>>] + 1,
           Len(host_events[type]))

\* EventReader::iter(): the events the reader has not yet seen.
ReaderIter(sys, type) ==
    SubSeq(host_events[type], readers[<<sys, type>>] + 1, Len(host_events[type]))

ReadersAfter(sys) ==
    [r \in Readers |-> IF r[1] = sys THEN Len(host_events[r[2]]) ELSE readers[r]]

----------------------------------------------------------------------------
\* sync_mouse_events (mouse.rs lines 104-136)

\* Variant: the vector is not cleared.
VecClear_kept(v) == v

\* Vec::clear()
VecClear(v) == <<>>

\* for ev in reader.iter() { vec.push(f(ev)) }
RECURSIVE PushAll(_, _)
PushAll(vec, evs) ==
    IF evs = <<>> THEN vec ELSE PushAll(Append(vec, Head(evs)), Tail(evs))

\* Variant: the whole window size is subtracted, not half of it.
ToGameSpace_full(position, window_dimensions) == VSub(position, window_dimensions)

\* new_event.position -= game_state.window_dimensions * 0.5
ToGameSpace(position, window_dimensions) == VSub(position, VHalf(window_dimensions))

LocationEvent(ev, window_dimensions) ==
    [ev EXCEPT !.position = ToGameSpace(ev.position, window_dimensions)]

\* ev2.delta.y *= -1.0
FlipY(delta) == <<delta[1], -1 * delta[2]>>

\* Variant: the motion event is pushed as the host delivered it.
MotionEvent_raw(ev) == ev

MotionEvent(ev) == [ev EXCEPT !.delta = FlipY(ev.delta)]

SyncMouseEventsResult(es, b, c, m, w) ==
    [es EXCEPT
        !.mouse_button_events = PushAll(VecClear(@), b),
        !.mouse_location_events =
            PushAll(VecClear(@),
                    [i \in 1..Len(c) |-> LocationEvent(c[i], es.window_dimensions)]),
        !.mouse_motion_events =
            PushAll(VecClear(@), [i \in 1..Len(m) |-> MotionEvent(m[i])]),
        !.mouse_wheel_events = PushAll(VecClear(@), w)]

SyncMouseEvents ==
    /\ stage \in {"sync", "game_logic"}
    /\ runs["sync_mouse_events"] = 0
    /\ engine_state' =
          SyncMouseEventsResult(engine_state,
                                ReaderIter("sync_mouse_events", "MouseButtonInput"),
                                ReaderIter("sync_mouse_events", "CursorMoved"),
                                ReaderIter("sync_mouse_events", "MouseMotion"),
                                ReaderIter("sync_mouse_events", "MouseWheel"))
    /\ readers' = ReadersAfter("sync_mouse_events")
    /\ runs' = [runs EXCEPT !["sync_mouse_events"] = @ + 1]
    /\ UNCHANGED <<host_events, mouse_button_input, mouse_state, stage, delivered,
                   cursor_seen, reads, read_log, logic_vars>>

----------------------------------------------------------------------------
\* sync_mouse_state (mouse.rs lines 138-198)

\* Variant: without a location event the location is forgotten.
SyncedLocation_reset(location, evs, window_dimensions) ==
    IF evs = <<>> THEN None
    ELSE Some(VSub(evs[Len(evs)].position, VHalf(window_dimensions)))

\* Variant: the first event of the frame is taken instead of the last.
SyncedLocation_first(location, evs, window_dimensions) ==
    IF evs = <<>> THEN location
    ELSE Some(VSub(evs[1].position, VHalf(window_dimensions)))

\* if let Some(event) = cursor_moved_events.iter().last() { ... }
SyncedLocation(location, evs, window_dimensions) ==
    IF evs = <<>> THEN location
    ELSE Some(ToGameSpace(evs[Len(evs)].position, window_dimensions))

\* Variant: motion is not reset before summing.
MotionReset_kept(motion) == motion

\* mouse_state.motion = Vec2::ZERO
MotionReset(motion) == ZERO

\* for ev in mouse_motion_events.iter() { ...; mouse_state.motion += ev2.delta }
RECURSIVE MotionSum(_, _)
MotionSum(motion, evs) ==
    IF evs = <<>> THEN motion
    ELSE MotionSum(VAdd(motion, FlipY(Head(evs).delta)), Tail(evs))

SyncedMotion(motion, evs) == MotionSum(MotionReset(motion), evs)

\* Variant: each event overwrites the cumulative value instead of adding to it.
RECURSIVE Cumulative_overwrite(_, _)
Cumulative_overwrite(acc, evs) ==
    IF evs = <<>> THEN acc
    ELSE Cumulative_overwrite([x |-> Head(evs).x, y |-> Head(evs).y], Tail(evs))

\* for ev in mouse_wheel_events.iter() { cumulative_x += ev.x; cumulative_y += ev.y }
RECURSIVE Cumulative(_, _)
Cumulative(acc, evs) ==
    IF evs = <<>> THEN acc
    ELSE Cumulative([x |-> acc.x + Head(evs).x, y |-> acc.y + Head(evs).y], Tail(evs))

\* Variant: the cumulative value is stored without normalising it.
WheelAxis_raw(cumulative) == cumulative

\* match cumulative { v if v > 0.0 => 1.0, v if v < 0.0 => -1.0, _ => 0.0 }
WheelAxis(cumulative) ==
    IF cumulative > 0 THEN 1 ELSE IF cumulative < 0 THEN -1 ELSE 0

SyncedWheel(evs) ==
    LET c == Cumulative([x |-> 0, y |-> 0], evs)
    IN  [MouseWheelStateDefault EXCEPT !.x = WheelAxis(c.x), !.y = WheelAxis(c.y)]

\* Variant: the set is not cleared.
SetClear_kept(set) == set

\* HashSet::clear()
SetClear(set) == {}

\* set.clear(); for b in host { set.insert(*b) }
Transfer(set, host) == SetClear(set) \cup host

\* Variant: just_released is filled from get_just_pressed().
SyncMouseStateResult_pasted(ms, inp, motion_evs, cursor_evs, wheel_evs, window_dimensions) ==
    [location |-> SyncedLocation(ms.location, cursor_evs, window_dimensions),
     motion |-> SyncedMotion(ms.motion, motion_evs),
     wheel |-> SyncedWheel(wheel_evs),
     pressed |-> Transfer(ms.pressed, inp.pressed),
     just_pressed |-> Transfer(ms.just_pressed, inp.just_pressed),
     just_released |-> Transfer(ms.just_released, inp.just_pressed)]

SyncMouseStateResult(ms, inp, motion_evs, cursor_evs, wheel_evs, window_dimensions) ==
    [location |-> SyncedLocation(ms.location, cursor_evs, window_dimensions),
     motion |-> SyncedMotion(ms.motion, motion_evs),
     wheel |-> SyncedWheel(wheel_evs),
     pressed |-> Transfer(ms.pressed, inp.pressed),
     just_pressed |-> Transfer(ms.just_pressed, inp.just_pressed),
     just_released |-> Transfer(ms.just_released, inp.just_released)]

\* Variant: the location is taken from the last entry of mouse_location_events
\* instead of from the system's own reader.
SyncMouseState_from_log ==
    /\ stage \in {"sync", "game_logic"}
    /\ runs["sync_mouse_state"] = 0
    /\ mouse_state' =
          [SyncMouseStateResult(mouse_state, mouse_button_input,
                                ReaderIter("sync_mouse_state", "MouseMotion"),
                                ReaderIter("sync_mouse_state", "CursorMoved"),
                                ReaderIter("sync_mouse_state", "MouseWheel"),
                                engine_state.window_dimensions)
              EXCEPT !.location =
                 IF engine_state.mouse_location_events = <<>> THEN mouse_state.location
                 ELSE Some(engine_state.mouse_location_events[
                              Len(engine_state.mouse_location_events)].position)]
    /\ readers' = ReadersAfter("sync_mouse_state")
    /\ runs' = [runs EXCEPT !["sync_mouse_state"] = @ + 1]
    /\ UNCHANGED <<host_events, mouse_button_input, engine_state, stage, delivered,
                   cursor_seen, reads, read_log, logic_vars>>

SyncMouseState ==
    /\ stage \in {"sync", "game_logic"}
    /\ runs["sync_mouse_state"] = 0
    /\ mouse_state' =
          SyncMouseStateResult(mouse_state, mouse_button_input,
                               ReaderIter("sync_mouse_state", "MouseMotion"),
                               ReaderIter("sync_mouse_state", "CursorMoved"),
                               ReaderIter("sync_mouse_state", "MouseWheel"),
                               engine_state.window_dimensions)
    /\ readers' = ReadersAfter("sync_mouse_state")
    /\ runs' = [runs EXCEPT !["sync_mouse_state"] = @ + 1]
    /\ UNCHANGED <<host_events, mouse_button_input, engine_state, stage, delivered,
                   cursor_seen, reads, read_log, logic_vars>>

----------------------------------------------------------------------------
\* Game logic: the stage labelled "game_logic_sync" starts once every system
\* ordered before it has run.

GameLogic ==
    /\ stage = "sync"
    /\ \A s \in BeforeGameLogicSync : runs[s] = 1
    /\ stage' = "game_logic"
    /\ UNCHANGED <<host_events, mouse_button_input, readers, engine_state,
                   mouse_state, runs, delivered, cursor_seen, reads, read_log, logic_vars>>

\* Variant: reading takes the entries out of the vectors.
AfterRead_drain(es) ==
    [es EXCEPT !.mouse_button_events = <<>>, !.mouse_location_events = <<>>,
               !.mouse_motion_events = <<>>, !.mouse_wheel_events = <<>>]

\* Game logic reads the four event vectors (fields of EngineState) by reference.
AfterRead(es) == es

ReadLog ==
    /\ stage = "game_logic"
    /\ reads < MaxReads
    /\ read_log' = Log(engine_state)
    /\ engine_state' = AfterRead(engine_state)
    /\ reads' = reads + 1
    /\ UNCHANGED <<host_events, mouse_button_input, readers, mouse_state, runs,
                   stage, delivered, cursor_seen, logic_vars>>

Next ==
    \/ HostFrame
    \/ SyncMouseState
    \/ SyncMouseEvents
    \/ GameLogic
    \/ ReadLog

Spec == Init /\ [][Next]_vars

----------------------------------------------------------------------------
\* MouseState queries (mouse.rs lines 58-102)

Location(ms) == ms.location
Motion(ms) == ms.motion
Wheel(ms) == ms.wheel
Pressed(ms, mouse_button) == mouse_button \in ms.pressed
JustPressed(ms, mouse_button) == mouse_button \in ms.just_pressed
JustReleased(ms, mouse_button) == mouse_button \in ms.just_released

\* Variant: every listed button must be pressed.
PressedAny_all(ms, mouse_buttons) == \A i \in 1..Len(mouse_buttons) : Pressed(ms, mouse_buttons[i])

\* mouse_buttons.iter().any(|k| self.pressed(*k)): false for an empty slice,
\* true at the first button that matches.
RECURSIVE PressedAny(_, _)
PressedAny(ms, mouse_buttons) ==
    IF mouse_buttons = <<>> THEN FALSE
    ELSE IF Pressed(ms, Head(mouse_buttons)) THEN TRUE
    ELSE PressedAny(ms, Tail(mouse_buttons))

RECURSIVE JustPressedAny(_, _)
JustPressedAny(ms, mouse_buttons) ==
    IF mouse_buttons = <<>> THEN FALSE
    ELSE IF JustPressed(ms, Head(mouse_buttons)) THEN TRUE
    ELSE JustPressedAny(ms, Tail(mouse_buttons))

RECURSIVE JustReleasedAny(_, _)
JustReleasedAny(ms, mouse_buttons) ==
    IF mouse_buttons = <<>> THEN FALSE
    ELSE IF JustReleased(ms, Head(mouse_buttons)) THEN TRUE
    ELSE JustReleasedAny(ms, Tail(mouse_buttons))

ButtonLists == SeqsUpTo(MouseButton, MaxList)

Queries ==
    {<<"location">>, <<"motion">>, <<"wheel">>}
        \cup ({"pressed", "just_pressed", "just_released"} \X MouseButton)
        \cup ({"pressed_any", "just_pressed_any", "just_released_any"} \X ButtonLists)

Answer(q, ms) ==
    CASE q[1] = "location" -> Location(ms)
      [] q[1] = "motion" -> Motion(ms)
      [] q[1] = "wheel" -> Wheel(ms)
      [] q[1] = "pressed" -> Pressed(ms, q[2])
      [] q[1] = "just_pressed" -> JustPressed(ms, q[2])
      [] q[1] = "just_released" -> JustReleased(ms, q[2])
      [] q[1] = "pressed_any" -> PressedAny(ms, q[2])
      [] q[1] = "just_pressed_any" -> JustPressedAny(ms, q[2])
      [] q[1] = "just_released_any" -> JustReleasedAny(ms, q[2])

\* Variant: querying takes the just_pressed buttons out of the state.
AfterQuery_consume(ms) == [ms EXCEPT !.just_pressed = {}]

\* Every query takes &self.
AfterQuery(ms) == ms

\* Game logic asks every query once.
QueryMouseState ==
    /\ stage = "game_logic"
    /\ queries < MaxQueries
    /\ answers' = [q \in Queries |-> Answer(q, mouse_state)]
    /\ mouse_state' = AfterQuery(mouse_state)
    /\ queries' = queries + 1
    /\ UNCHANGED <<host_events, mouse_button_input, readers, engine_state, runs,
                   stage, delivered, cursor_seen, reads, read_log, drains, drained,
                   last_drain>>

\* A run in which game logic queries MouseState.
NextQuery ==
    \/ HostFrame
    \/ SyncMouseState
    \/ SyncMouseEvents
    \/ GameLogic
    \/ QueryMouseState

SpecQuery == Init /\ [][NextQuery]_vars

----------------------------------------------------------------------------
\* Game logic holds &mut EngineState and may drain an event vector: one that
\* holds entries, or one it has drained before in this frame.

VecNames ==
    {"mouse_button_events", "mouse_location_events", "mouse_motion_events",
     "mouse_wheel_events"}

\* What vec.drain(..) leaves in the vector.
AfterDrain(vec) == <<>>

DrainLog ==
    /\ stage = "game_logic"
    /\ drains < MaxDrains
    /\ \E k \in VecNames :
          /\ engine_state[k] # <<>> \/ k \in drained
          /\ last_drain' = [vec |-> k, taken |-> engine_state[k], again |-> k \in drained]
          /\ engine_state' = [engine_state EXCEPT ![k] = AfterDrain(@)]
          /\ drained' = drained \cup {k}
    /\ drains' = drains + 1
    /\ reads' = 0
    /\ read_log' = NoRead
    /\ UNCHANGED <<host_events, mouse_button_input, readers, mouse_state, runs,
                   stage, delivered, cursor_seen, queries, answers>>

\* A run in which game logic takes the events by draining the vectors.
NextDrain ==
    \/ HostFrame
    \/ SyncMouseState
    \/ SyncMouseEvents
    \/ GameLogic
    \/ DrainLog

SpecDrain == Init /\ [][NextDrain]_vars

----------------------------------------------------------------------------
\* Properties

StateSynced == runs["sync_mouse_state"] = 1
EventsSynced == runs["sync_mouse_events"] = 1

\* The step taken is sync_mouse_state.
StateSyncStep == runs["sync_mouse_state"] = 0 /\ runs'["sync_mouse_state"] = 1

RawButtons == host_events["MouseButtonInput"]
RawLocations == host_events["CursorMoved"]
RawMotions == host_events["MouseMotion"]
RawWheels == host_events["MouseWheel"]
Dims == engine_state.window_dimensions

\* Sum of f over the entries of a sequence.
RECURSIVE SumOf(_, _)
SumOf(f(_), s) == IF s = <<>> THEN 0 ELSE f(s[Len(s)]) + SumOf(f, SubSeq(s, 1, Len(s) - 1))

Sign(n) == CHOOSE k \in {-1, 0, 1} : (k = 0 <=> n = 0) /\ k * n >= 0

\* C1: a frame without a location event leaves location as it was before
\* sync_mouse_state (whatever the window dimensions are now); a frame with
\* location events sets it to Some(p - window_dimensions * 0.5) for the position
\* p of the last one.  With dimensions (800, 600) an event at (800, 300) gives
\* (400, 0).
C1_LocationStickyOrLast ==
    [][StateSyncStep =>
        /\ RawLocations = <<>> => mouse_state'.location = mouse_state.location
        /\ RawLocations # <<>> =>
              LET p == RawLocations[Len(RawLocations)].position
              IN  mouse_state'.location =
                     <<(<<p[1] - Dims[1] \div 2, p[2] - Dims[2] \div 2>>)>>
        /\ (Dims = <<800, 600>> /\ RawLocations = <<[position |-> <<800, 300>>]>>)
              => mouse_state'.location = <<(<<400, 0>>)>>
      ]_vars

\* C1 witness: synced frame without a location event whose location (400, 0)
\* was set under dimensions (800, 600) while the dimensions now are (400, 200).
C1_Witness ==
    /\ StateSynced
    /\ RawLocations = <<>>
    /\ mouse_state.location = <<(<<400, 0>>)>>
    /\ Dims = <<400, 200>>

\* C2: once sync_mouse_events has run in a frame, each of the four vectors has
\* exactly one entry per raw event of its kind of this frame, in arrival order,
\* and nothing else, whatever the vectors held before.
C2_LogIsThisFrame ==
    EventsSynced =>
        /\ engine_state.mouse_button_events = RawButtons
        /\ engine_state.mouse_wheel_events = RawWheels
        /\ Len(engine_state.mouse_location_events) = Len(RawLocations)
        /\ \A i \in 1..Len(RawLocations) :
              LET e == engine_state.mouse_location_events[i].position
              IN  <<e[1] + Dims[1] \div 2, e[2] + Dims[2] \div 2>>
                     = RawLocations[i].position
        /\ Len(engine_state.mouse_motion_events) = Len(RawMotions)
        /\ \A i \in 1..Len(RawMotions) :
              LET e == engine_state.mouse_motion_events[i].delta
              IN  <<e[1], 0 - e[2]>> = RawMotions[i].delta

\* C2 witness: the vectors are synced in a frame with just one button event and
\* one location event, after an earlier frame delivered another event.
C2_Witness ==
    /\ EventsSynced
    /\ Len(RawButtons) = 1
    /\ Len(RawLocations) = 1
    /\ RawMotions = <<>>
    /\ RawWheels = <<>>
    /\ delivered = 3

WheelX(ev) == ev.x
WheelY(ev) == ev.y

\* C3: after sync_mouse_state, wheel.x and wheel.y are the signs of the sums
\* of the frame's wheel x and y deltas (0 when they cancel); without a wheel
\* event the wheel is {0, 0}; {0,-3} then {0,-1} gives {0,-1}.
C3_WheelIsSignOfSum ==
    StateSynced =>
        /\ mouse_state.wheel.x = Sign(SumOf(WheelX, RawWheels))
        /\ mouse_state.wheel.y = Sign(SumOf(WheelY, RawWheels))
        /\ RawWheels = <<>> => mouse_state.wheel = [x |-> 0, y |-> 0]
        /\ RawWheels = <<[x |-> 0, y |-> -3], [x |-> 0, y |-> -1]>>
              => mouse_state.wheel = [x |-> 0, y |-> -1]

\* C3 witness: synced frame whose two wheel events cancel on the y axis.
C3_Witness ==
    /\ StateSynced
    /\ RawWheels = <<[x |-> 0, y |-> -3], [x |-> 1, y |-> 3]>>
    /\ mouse_state.wheel = [x |-> 1, y |-> 0]

\* A frame without wheel events right after a frame with some (the vectors
\* still hold the previous frame's wheel events).
C3_ReachNotSticky ==
    /\ StateSynced
    /\ ~EventsSynced
    /\ RawWheels = <<>>
    /\ engine_state.mouse_wheel_events # <<>>
    /\ mouse_state.wheel = [x |-> 0, y |-> 0]

DeltaX(ev) == ev.delta[1]
DeltaFlippedY(ev) == 0 - ev.delta[2]

\* C4: after sync_mouse_state, motion is the sum over this frame's motion
\* events of (delta.x, -delta.y), the zero vector when there is none; earlier
\* frames do not contribute.
C4_MotionIsFlippedSum ==
    StateSynced =>
        /\ mouse_state.motion =
              <<SumOf(DeltaX, RawMotions), SumOf(DeltaFlippedY, RawMotions)>>
        /\ RawMotions = <<>> => mouse_state.motion = <<0, 0>>

\* C4 witness: two motion events (1, 2) summed to (2, -4).
C4_Witness ==
    /\ StateSynced
    /\ Len(RawMotions) = 2
    /\ mouse_state.motion = <<2, -4>>

HasEvent(b, st) ==
    \E i \in 1..Len(RawButtons) : RawButtons[i] = [button |-> b, state |-> st]

C6_SetsEqualHost ==
    StateSynced =>
        /\ mouse_state.pressed = mouse_button_input.pressed
        /\ mouse_state.just_pressed = mouse_button_input.just_pressed
        /\ mouse_state.just_released = mouse_button_input.just_released
        /\ \A b \in MouseButton :
              (b \in mouse_button_input.just_pressed /\ b \notin mouse_button_input.pressed)
                 => (b \in mouse_state.just_pressed /\ b \notin mouse_state.pressed)

\* C6 witness: a synced frame, following a frame in which Left was released
\* (its release is still in the vectors), in which the host has Right in
\* just_pressed but not in pressed and nothing in just_released besides Right.
C6_Witness ==
    /\ StateSynced
    /\ ~EventsSynced
    /\ \E i \in 1..Len(engine_state.mouse_button_events) :
          engine_state.mouse_button_events[i] = [button |-> "Left", state |-> "Released"]
    /\ mouse_button_input.just_pressed = {"Right"}
    /\ "Right" \notin mouse_button_input.pressed
    /\ mouse_state.just_released = {"Right"}
    /\ mouse_state.pressed = {}

\* The four vectors as sync_mouse_events must leave them for this frame.
ThisFrameLog ==
    [mouse_button_events |-> RawButtons,
     mouse_location_events |->
        [i \in 1..Len(RawLocations) |->
            [position |-> <<RawLocations[i].position[1] - Dims[1] \div 2,
                            RawLocations[i].position[2] - Dims[2] \div 2>>]],
     mouse_motion_events |->
        [i \in 1..Len(RawMotions) |->
            [delta |-> <<RawMotions[i].delta[1], 0 - RawMotions[i].delta[2]>>]],
     mouse_wheel_events |-> RawWheels]

\* C7: in every frame each sync system runs once, and both have run before
\* game logic runs: whatever game logic reads is this frame's log, and the
\* MouseState it sees has been synced this frame.
C7_SyncedBeforeLogic ==
    /\ \A s \in Systems : runs[s] <= 1
    /\ stage = "game_logic" => \A s \in Systems : runs[s] = 1
    /\ reads > 0 => (StateSynced /\ EventsSynced /\ read_log = ThisFrameLog)

\* C7 witness: game logic has read the vectors of a frame with events.
C7_Witness ==
    /\ stage = "game_logic"
    /\ reads = 1
    /\ RawButtons # <<>>
    /\ RawWheels # <<>>

\* C8: location is None from the initial state until sync_mouse_state
\* processes the first location event of the run, and is Some in every state
\* after that; it is never Some before a location event was delivered.
C8_LocationUnknownUntilFirstEvent ==
    /\ []((StateSynced \/ RawLocations = <<>>)
             => (mouse_state.location = <<>> <=> ~cursor_seen))
    /\ [](~cursor_seen => mouse_state.location = <<>>)
    /\ [][mouse_state.location # <<>> => mouse_state'.location # <<>>]_vars

\* C8 witness: a later synced frame without a location event (and none in the
\* frame before it) in which the location is known.
C8_Witness ==
    /\ StateSynced
    /\ ~EventsSynced
    /\ RawLocations = <<>>
    /\ engine_state.mouse_location_events = <<>>
    /\ engine_state.mouse_button_events # <<>>
    /\ mouse_state.location # <<>>

\* Frames have passed without any location event and the location is unknown.
C8_ReachStillNone ==
    /\ StateSynced
    /\ delivered = MaxEvents
    /\ ~cursor_seen
    /\ mouse_state.location = <<>>

\* C9: in every state, the initial one included, wheel.x and wheel.y are
\* each -1, 0 or 1.
C9_WheelRange ==
    /\ mouse_state.wheel.x \in {-1, 0, 1}
    /\ mouse_state.wheel.y \in {-1, 0, 1}

\* C9 witness: a single wheel event {1, 3} has been normalised to {1, 1}.
C9_Witness ==
    /\ StateSynced
    /\ RawWheels = <<[x |-> 1, y |-> 3]>>
    /\ mouse_state.wheel = [x |-> 1, y |-> 1]

\* C10: after game logic has read the vectors in a frame, they still hold
\* what the read returned, so a second read in the frame returns the same
\* contents for all four vectors.
C10_ReadLeavesLog ==
    reads >= 1 => read_log = Log(engine_state)

\* C10 witness: two reads in one frame of non-empty vectors.
C10_Witness ==
    /\ reads = 2
    /\ read_log.mouse_button_events # <<>>
    /\ read_log.mouse_location_events # <<>>

\* Host positions and window sizes of the conversion grid; the sizes are even,
\* so that halving them is exact.
GridPositions == (-MaxCoord..MaxCoord) \X (-MaxCoord..MaxCoord)
GridDimensions == {<<2 * w, 2 * h>> : w \in 0..MaxCoord, h \in 0..MaxCoord}

\* The conversion and its inverse on the whole grid.
GridRoundTrip ==
    \A p \in GridPositions : \A d \in GridDimensions :
       /\ ToGameSpace(p, d) = <<p[1] - d[1] \div 2, p[2] - d[2] \div 2>>
       /\ <<ToGameSpace(p, d)[1] + d[1] \div 2, ToGameSpace(p, d)[2] + d[2] \div 2>> = p

\* C11: the conversion is host_position - window_dimensions * 0.5, and adding
\* window_dimensions * 0.5 back gives the host position: on the whole grid,
\* for the synced location and for every location entry of the vectors.
C11_ConversionRoundTrip ==
    /\ GridRoundTrip
    /\ (StateSynced /\ RawLocations # <<>>) =>
          /\ Len(mouse_state.location) = 1
          /\ <<mouse_state.location[1][1] + Dims[1] \div 2,
               mouse_state.location[1][2] + Dims[2] \div 2>>
                = RawLocations[Len(RawLocations)].position
    /\ EventsSynced =>
          \A i \in 1..Len(engine_state.mouse_location_events) :
             /\ i <= Len(RawLocations)
             /\ <<engine_state.mouse_location_events[i].position[1] + Dims[1] \div 2,
                  engine_state.mouse_location_events[i].position[2] + Dims[2] \div 2>>
                   = RawLocations[i].position

\* C11 witness: the host position (0, 0) under dimensions (400, 200) has been
\* converted to (-200, -100) in the synced location and in the vector.
C11_Witness ==
    /\ StateSynced
    /\ EventsSynced
    /\ Dims = <<400, 200>>
    /\ RawLocations = <<[position |-> <<0, 0>>]>>
    /\ mouse_state.location = <<(<<-200, -100>>)>>
    /\ engine_state.mouse_location_events = <<[position |-> <<-200, -100>>]>>

NoRawEvent == \A t \in EventTypes : host_events[t] = <<>>

\* C12: a frame that delivers no raw event is a normal frame: both systems
\* run, the four vectors are empty, motion is zero, wheel is {0, 0}, the three
\* button sets are the host's, and sync_mouse_state leaves location as it was.
C12_EmptyFrame ==
    /\ []((NoRawEvent /\ StateSynced /\ EventsSynced) =>
             /\ engine_state.mouse_button_events = <<>>
             /\ engine_state.mouse_location_events = <<>>
             /\ engine_state.mouse_motion_events = <<>>
             /\ engine_state.mouse_wheel_events = <<>>
             /\ mouse_state.motion = <<0, 0>>
             /\ mouse_state.wheel = [x |-> 0, y |-> 0]
             /\ mouse_state.pressed = mouse_button_input.pressed
             /\ mouse_state.just_pressed = mouse_button_input.just_pressed
             /\ mouse_state.just_released = mouse_button_input.just_released
             /\ mouse_state.just_pressed = {}
             /\ mouse_state.just_released = {})
    /\ [][(StateSyncStep /\ NoRawEvent) => mouse_state'.location = mouse_state.location]_vars
    /\ []((NoRawEvent /\ stage = "sync") =>
             (ENABLED SyncMouseState \/ ENABLED SyncMouseEvents \/ ENABLED GameLogic))

\* C12 witness: game logic runs in a frame without any raw event, after a run
\* that left a button held and a known location.
C12_Witness ==
    /\ NoRawEvent
    /\ stage = "game_logic"
    /\ StateSynced
    /\ EventsSynced
    /\ mouse_state.pressed = {"Left"}
    /\ mouse_state.location # <<>>

\* C14: each entry of the vectors after sync_mouse_events is the raw event
\* transformed by kind: location entries have position - window_dimensions * 0.5,
\* motion entries have (delta.x, -delta.y), button and wheel entries are the
\* raw events (wheel deltas keep their magnitude).
C14_EntriesTransformedPerKind ==
    EventsSynced =>
        /\ Len(engine_state.mouse_location_events) = Len(RawLocations)
        /\ \A i \in 1..Len(RawLocations) :
              engine_state.mouse_location_events[i] =
                 [position |-> <<RawLocations[i].position[1] - Dims[1] \div 2,
                                 RawLocations[i].position[2] - Dims[2] \div 2>>]
        /\ Len(engine_state.mouse_motion_events) = Len(RawMotions)
        /\ \A i \in 1..Len(RawMotions) :
              engine_state.mouse_motion_events[i] =
                 [delta |-> <<RawMotions[i].delta[1], 0 - RawMotions[i].delta[2]>>]
        /\ Len(engine_state.mouse_button_events) = Len(RawButtons)
        /\ \A i \in 1..Len(RawButtons) :
              engine_state.mouse_button_events[i] = RawButtons[i]
        /\ Len(engine_state.mouse_wheel_events) = Len(RawWheels)
        /\ \A i \in 1..Len(RawWheels) :
              engine_state.mouse_wheel_events[i] = RawWheels[i]

\* C14 witness: a motion (1, 2), a wheel delta {1, 3} and a location
\* (800, 300) under dimensions (800, 600) are in the vectors as (1, -2),
\* {1, 3} and (400, 0).
C14_Witness ==
    /\ EventsSynced
    /\ Dims = <<800, 600>>
    /\ engine_state.mouse_motion_events = <<[delta |-> <<1, -2>>]>>
    /\ engine_state.mouse_wheel_events = <<[x |-> 1, y |-> 3]>>
    /\ engine_state.mouse_location_events = <<[position |-> <<400, 0>>]>>

EntryDeltaX(ev) == ev.delta[1]
EntryDeltaY(ev) == ev.delta[2]

\* C15: once both systems have run in a frame, motion is the sum of the deltas
\* in mouse_motion_events, wheel.x and wheel.y are the signs of the sums of x
\* and y over mouse_wheel_events, and with a non-empty mouse_location_events
\* the location is Some(position of its last entry); each system has read
\* every raw event of the frame through its own readers.
C15_ViewsAgree ==
    (StateSynced /\ EventsSynced) =>
        /\ mouse_state.motion =
              <<SumOf(EntryDeltaX, engine_state.mouse_motion_events),
                SumOf(EntryDeltaY, engine_state.mouse_motion_events)>>
        /\ mouse_state.wheel.x = Sign(SumOf(WheelX, engine_state.mouse_wheel_events))
        /\ mouse_state.wheel.y = Sign(SumOf(WheelY, engine_state.mouse_wheel_events))
        /\ engine_state.mouse_location_events # <<>> =>
              mouse_state.location =
                 <<engine_state.mouse_location_events[
                      Len(engine_state.mouse_location_events)].position>>
        /\ \A r \in Readers : readers[r] = Len(host_events[r[2]])
        /\ Len(engine_state.mouse_motion_events) = Len(RawMotions)
        /\ Len(engine_state.mouse_wheel_events) = Len(RawWheels)
        /\ Len(engine_state.mouse_location_events) = Len(RawLocations)

\* C15 witness: both views of a frame with a motion, a wheel and a location
\* event.
C15_Witness ==
    /\ StateSynced
    /\ EventsSynced
    /\ Len(engine_state.mouse_motion_events) = 1
    /\ Len(engine_state.mouse_wheel_events) = 1
    /\ Len(engine_state.mouse_location_events) = 1
    /\ mouse_state.motion # <<0, 0>>
    /\ mouse_state.wheel.y # 0

\* The step taken is sync_mouse_events.
EventsSyncStep == runs["sync_mouse_events"] = 0 /\ runs'["sync_mouse_events"] = 1

\* MouseState as sync_mouse_state must leave it, from the MouseState before the
\* step and the frame's input alone.
ThisFrameMouseState ==
    [location |->
        IF RawLocations = <<>> THEN mouse_state.location
        ELSE <<(<<RawLocations[Len(RawLocations)].position[1] - Dims[1] \div 2,
                  RawLocations[Len(RawLocations)].position[2] - Dims[2] \div 2>>)>>,
     motion |-> <<SumOf(DeltaX, RawMotions), SumOf(DeltaFlippedY, RawMotions)>>,
     wheel |-> [x |-> Sign(SumOf(WheelX, RawWheels)), y |-> Sign(SumOf(WheelY, RawWheels))],
     pressed |-> mouse_button_input.pressed,
     just_pressed |-> mouse_button_input.just_pressed,
     just_released |-> mouse_button_input.just_released]

\* C16: the two systems commute.  Whichever runs first, sync_mouse_events sets
\* the four vectors to a value fixed by the frame's input and changes neither
\* MouseState nor window_dimensions, and sync_mouse_state sets MouseState to a
\* value fixed by the frame's input and the MouseState before it and changes
\* nothing of EngineState; neither touches the other's readers.
C16_SyncStepsCommute ==
    /\ [][EventsSyncStep =>
             /\ Log(engine_state') = ThisFrameLog
             /\ engine_state'.window_dimensions = engine_state.window_dimensions
             /\ mouse_state' = mouse_state
             /\ \A r \in Readers : r[1] = "sync_mouse_state" => readers'[r] = readers[r]
          ]_vars
    /\ [][StateSyncStep =>
             /\ mouse_state' = ThisFrameMouseState
             /\ engine_state' = engine_state
             /\ \A r \in Readers : r[1] = "sync_mouse_events" => readers'[r] = readers[r]
          ]_vars

\* C16 witness: both systems have run in a frame with a location and a motion
\* event.
C16_Witness ==
    /\ StateSynced
    /\ EventsSynced
    /\ stage = "sync"
    /\ RawLocations # <<>>
    /\ RawMotions # <<>>
    /\ mouse_state.location # <<>>
    /\ engine_state.mouse_location_events # <<>>

\* sync_mouse_state has run before sync_mouse_events in a frame whose location
\* events differ from those of the frame before.
C16_ReachStateFirst ==
    /\ StateSynced
    /\ ~EventsSynced
    /\ RawLocations # <<>>
    /\ engine_state.mouse_location_events # <<>>
    /\ mouse_state.location
          # <<engine_state.mouse_location_events[
                 Len(engine_state.mouse_location_events)].position>>

\* sync_mouse_events has run before sync_mouse_state in a frame with a
\* location event.
C16_ReachEventsFirst ==
    /\ EventsSynced
    /\ ~StateSynced
    /\ RawLocations # <<>>

\* C13: when game logic drains a vector it takes all of its entries; a second
\* drain of that vector in the frame returns nothing, a drained vector stays
\* empty for the rest of the frame, and the vectors of a later frame hold only
\* that frame's events.
C13_DrainIsFinal ==
    /\ (last_drain # NoDrain /\ last_drain.again) => last_drain.taken = <<>>
    /\ (last_drain # NoDrain /\ ~last_drain.again) =>
          last_drain.taken = ThisFrameLog[last_drain.vec]
    /\ \A k \in drained : engine_state[k] = <<>>
    /\ (EventsSynced /\ drained = {}) => Log(engine_state) = ThisFrameLog

\* C13 witness: the button vector of a frame with button events has been
\* drained twice, the second drain returning nothing.
C13_Witness ==
    /\ drains = 2
    /\ RawButtons # <<>>
    /\ last_drain # NoDrain
    /\ last_drain.vec = "mouse_button_events"
    /\ last_drain.again
    /\ last_drain.taken = <<>>

\* A frame with a motion event begins after a frame whose motion vector was
\* drained (MouseState still holds that frame's motion).
C13_ReachNextFrame ==
    /\ stage = "sync"
    /\ ~StateSynced
    /\ ~EventsSynced
    /\ mouse_state.motion # <<0, 0>>
    /\ engine_state.mouse_motion_events = <<>>
    /\ RawMotions # <<>>

\* C17: MouseState is changed only by sync_mouse_state; the queries leave its
\* six fields as they are, so asking the same query again before the next
\* sync returns what it returned before.
C17_QueriesReadOnly ==
    /\ [](queries >= 1 => answers = [q \in Queries |-> Answer(q, mouse_state)])
    /\ [][mouse_state' # mouse_state => StateSyncStep]_vars

\* C17 witness: two rounds of queries in a frame in which Left was just
\* pressed and the location is known.
C17_Witness ==
    /\ queries = 2
    /\ answers[<<"just_pressed", "Left">>]
    /\ answers[<<"location">>] # <<>>

\* C18: for every button list L, pressed_any(L), just_pressed_any(L) and
\* just_released_any(L) are true exactly when some button of L satisfies
\* pressed, just_pressed, just_released; all three are false for the empty
\* list, and repeating a button in L does not change the result.
C18_AnyIsExists ==
    /\ \A l \in ButtonLists :
          /\ PressedAny(mouse_state, l) = (\E i \in 1..Len(l) : Pressed(mouse_state, l[i]))
          /\ JustPressedAny(mouse_state, l) = (\E i \in 1..Len(l) : JustPressed(mouse_state, l[i]))
          /\ JustReleasedAny(mouse_state, l) = (\E i \in 1..Len(l) : JustReleased(mouse_state, l[i]))
    /\ ~PressedAny(mouse_state, <<>>)
    /\ ~JustPressedAny(mouse_state, <<>>)
    /\ ~JustReleasedAny(mouse_state, <<>>)
    /\ \A b \in MouseButton :
          /\ PressedAny(mouse_state, <<b, b>>) = PressedAny(mouse_state, <<b>>)
          /\ JustPressedAny(mouse_state, <<b, b>>) = JustPressedAny(mouse_state, <<b>>)
          /\ JustReleasedAny(mouse_state, <<b, b>>) = JustReleasedAny(mouse_state, <<b>>)
    /\ queries >= 1 =>
          \A l \in ButtonLists :
             /\ answers[<<"pressed_any", l>>] = (\E i \in 1..Len(l) : l[i] \in mouse_state.pressed)
             /\ answers[<<"just_pressed_any", l>>] = (\E i \in 1..Len(l) : l[i] \in mouse_state.just_pressed)
             /\ answers[<<"just_released_any", l>>] = (\E i \in 1..Len(l) : l[i] \in mouse_state.just_released)

\* C18 witness: with Left held and Right just released, pressed_any is true
\* for [Right, Left] and false for [Right], and just_released_any is true for
\* [Right, Right] and false for [Left].
C18_Witness ==
    /\ queries >= 1
    /\ answers[<<"pressed_any", <<"Right", "Left">>>>]
    /\ ~answers[<<"pressed_any", <<"Right">>>>]
    /\ answers[<<"just_released_any", <<"Right", "Right">>>>]
    /\ ~answers[<<"just_released_any", <<"Left">>>>]
    /\ ~answers[<<"just_pressed_any", <<>>>>]

====
